---- MODULE Spec2Model ----
(***************************************************************************)
(* Verification model of the search engine: the URL frontier               *)
(* (url_frontier.py), the crawl coordinator (crawler_manager.py), the      *)
(* inverted index (inverted_index.py) and the snippets of the search API   *)
(* (api_server.py).                                                        *)
(*                                                                         *)
(* The specifications of the module:                                       *)
(*   SpecFrontier   one URLFrontier driven by arbitrary callers            *)
(*   SpecCrawl      CrawlerManager.start_crawling with its workers         *)
(*   SpecCrawlFair  the same under a fair scheduler                        *)
(*   SpecBudget     start_crawling with more seeds than the budget counts  *)
(*   SpecPriority   callers of _calculate_url_priority                     *)
(*   SpecIndex      one InvertedIndex that is built and finalized          *)
(*   SpecSearch     the same, searched as well                             *)
(*   SpecQuery      an index over a small corpus, finalized and searched   *)
(*   SpecReadd      an index to which documents are added                  *)
(*   SpecPersist    an index that is saved to and loaded from a file       *)
(*   SpecSnippet    callers of _generate_snippet                           *)
(***************************************************************************)
EXTENDS Integers, Sequences, FiniteSets, TLC

\* ---------------------------------------------------------------- bounds
NumUrls == 3          \* URLs are 1..NumUrls
NumPrio == 2          \* priorities are 1..NumPrio (a larger number is a larger float)
MaxSize == 3          \* a frontier is built with max_size in 1..MaxSize
MaxQueueSize == 2     \* crawler.max_queue_size is in 1..MaxQueueSize

NumWorkers == 2       \* crawler.max_threads
MaxPages == 1         \* crawler.max_pages
MaxSeeds == 2         \* start_crawling is given at most MaxSeeds seed URLs
MaxLinks == 1         \* a parsed page has at most MaxLinks links
NumTexts == 3         \* page texts are 0..NumTexts, 0 the empty text
KEmpty == 1           \* the K of "K consecutive empty observations"
NumDocs == 2          \* doc ids are 1..NumDocs
MaxLen == 2           \* a document has at most MaxLen tokens
MaxDocCount == 2      \* add_document is called while document_count < MaxDocCount
MaxFinalize == 2      \* calculate_tfidf_scores is called at most MaxFinalize times
MaxQuery == 1         \* a query has at most MaxQuery terms
MaxLimit == 2         \* search is called with limit in 0..MaxLimit
MaxCalls == 5         \* the callers of save and load make at most MaxCalls calls
MaxPathLen == 5       \* a URL path has at most MaxPathLen characters
MaxContentLen == 3    \* a document's content has at most MaxContentLen characters
MaxTermLen == 2       \* a query term has at most MaxTermLen characters
MaxSnippetLen == 2    \* _generate_snippet is called with max_length in 1..MaxSnippetLen

Urls == 1..NumUrls
Priorities == 1..NumPrio

None == [none |-> TRUE]

VARIABLES
    \* URLFrontier
    max_size,       \* self.max_size
    queue,          \* self.queue: the heapq list of URLInfo
    seen_urls,      \* self.seen_urls
    clock,          \* time.time(): strictly increasing discovery times
    fret,           \* value returned by the last frontier call
    \* history of the frontier's callers
    offered,        \* URLs ever passed to add_url
    admitted,       \* URL -> number of add_url calls that returned True
    firstPrio,      \* URL -> priority of its accepted offer (0: none)
    lastCall,       \* the last call with the state it found
    prevPop,        \* priority of the successful pop before the last one (0: none)
    lastPop,        \* priority of the last successful pop (0: none)
    addedBetween,   \* an add_url was accepted between those two pops
    addSincePop,    \* an add_url was accepted since the last successful pop
    \* CrawlerManager
    seed_urls,      \* the argument of start_crawling
    main_pc,        \* where start_crawling stands
    seed_idx,       \* the seed the loop of start_crawling is at
    session,        \* self.session: "none", "open", "closed"
    worker_pc,      \* worker -> where _crawler_worker stands
    worker_url,     \* worker -> the url it holds (None: none)
    crawled_urls,   \* self.crawled_urls
    pages_crawled,  \* self.pages_crawled
    fingerprints,   \* the fingerprints self.duplicate_detector has recorded
    \* history of the crawl
    empty_polls,    \* worker -> consecutive empty get_next_url results, up to KEmpty
    stored,         \* the pages handed to _store_crawled_page, as (url, content)
    fetched,        \* URLs for which session.get was issued
    denied,         \* URLs for which can_crawl returned False
    \* InvertedIndex
    index,                  \* self.index: term -> (doc_id -> score)
    document_count,         \* self.document_count
    term_document_count,    \* self.term_document_count: term -> int
    document_lengths,       \* self.document_lengths: doc_id -> int
    \* history of the index's callers
    iret,           \* the last call on the index: its arguments, outcome and result
    docs,           \* doc_id -> the terms it was last added with
    phase,          \* "Empty", "Ingesting" or "Finalized", as the calls so far make it
    readded,        \* some doc_id was added more than once
    added_late,     \* add_document was called after calculate_tfidf_scores
    finalize_calls, \* number of calculate_tfidf_scores calls
    \* the index file
    file,           \* what filepath holds: nothing, or the pickled dictionary
    saved,          \* the state of the index that the last save_to_file wrote
    calls,          \* number of calls made by the callers of save and load
    \* a caller of _calculate_url_priority
    prio_call,      \* the last call: its arguments and the priority returned
    \* a caller of _generate_snippet
    snip_call       \* the last call: its arguments and the snippet returned

frontierVars == <<max_size, queue, seen_urls, clock, fret>>
historyVars == <<offered, admitted, firstPrio, lastCall, prevPop, lastPop, addedBetween,
                 addSincePop>>
crawlVars == <<seed_urls, main_pc, seed_idx, session, worker_pc, worker_url, crawled_urls,
               pages_crawled, fingerprints>>
crawlHistoryVars == <<empty_polls, stored, fetched, denied>>
indexVars == <<index, document_count, term_document_count, document_lengths>>
indexHistoryVars == <<iret, docs, phase, readded, added_late, finalize_calls>>
persistVars == <<file, saved, calls>>
priorityVars == <<prio_call, snip_call>>
vars == <<frontierVars, historyVars, crawlVars, crawlHistoryVars, indexVars, indexHistoryVars,
          persistVars, priorityVars>>

\* ------------------------------------------------------- URLInfo, heapq
URLInfo(url, priority, discovery_time) ==
    [url |-> url, priority |-> priority, discovery_time |-> discovery_time]

\* the comparison the wrong way round: a min-heap on priority
URLInfo_lt_reversed(self, other) == self.priority < other.priority

\* URLInfo.__lt__: higher priority first; nothing else is compared
URLInfo_lt(self, other) == self.priority > other.priority

\* heapq._siftdown(heap, startpos, pos) with newitem = heap[pos]; positions 0-based
RECURSIVE siftdown(_, _, _, _)
siftdown(heap, startpos, pos, newitem) ==
    IF pos > startpos
    THEN LET parentpos == (pos - 1) \div 2
             parent == heap[parentpos + 1]
         IN IF URLInfo_lt(newitem, parent)
            THEN siftdown([heap EXCEPT ![pos + 1] = parent], startpos, parentpos, newitem)
            ELSE [heap EXCEPT ![pos + 1] = newitem]
    ELSE [heap EXCEPT ![pos + 1] = newitem]

\* heapq._siftup(heap, pos): bubble the smaller child up to a leaf, then sift down
RECURSIVE siftup_loop(_, _, _, _)
siftup_loop(heap, startpos, pos, newitem) ==
    LET endpos == Len(heap)
        childpos == 2 * pos + 1
        rightpos == childpos + 1
    IN IF childpos < endpos
       THEN LET c == IF rightpos < endpos
                        /\ ~URLInfo_lt(heap[childpos + 1], heap[rightpos + 1])
                     THEN rightpos ELSE childpos
            IN siftup_loop([heap EXCEPT ![pos + 1] = heap[c + 1]], startpos, c, newitem)
       ELSE siftdown([heap EXCEPT ![pos + 1] = newitem], startpos, pos, newitem)

heappush(heap, item) ==
    siftdown(Append(heap, item), 0, Len(heap), item)

\* heapq.heappop: <<returned item, heap afterwards>>; heap is non-empty
heappop(heap) ==
    LET lastelt == heap[Len(heap)]
        rest == SubSeq(heap, 1, Len(heap) - 1)
    IN IF rest # <<>>
       THEN <<rest[1], siftup_loop([rest EXCEPT ![1] = lastelt], 0, 0, lastelt)>>
       ELSE <<lastelt, rest>>

\* ---------------------------------------------------------- URLFrontier
\* The frontier as a value.  Every method runs under self.lock and never
\* awaits inside it, so a call is one atomic step; it yields the frontier
\* afterwards, with the call's return value in ret.
Frontier ==
    [max_size |-> max_size, queue |-> queue, seen_urls |-> seen_urls,
     clock |-> clock, ret |-> fret]

\* add_url that pushes without recording the URL as seen
add_url_not_recorded(f, url, priority) ==
    IF url \in f.seen_urls
    THEN [f EXCEPT !.ret = FALSE]
    ELSE IF Len(f.queue) >= f.max_size
    THEN [f EXCEPT !.ret = FALSE]
    ELSE [f EXCEPT !.queue = heappush(f.queue, URLInfo(url, priority, f.clock + 1)),
                   !.clock = f.clock + 1,
                   !.ret = TRUE]

\* add_url without the capacity test
add_url_no_capacity(f, url, priority) ==
    IF url \in f.seen_urls
    THEN [f EXCEPT !.ret = FALSE]
    ELSE [f EXCEPT !.queue = heappush(f.queue, URLInfo(url, priority, f.clock + 1)),
                   !.seen_urls = f.seen_urls \cup {url},
                   !.clock = f.clock + 1,
                   !.ret = TRUE]

\* add_url whose capacity test lets the queue grow to max_size + 1
add_url_one_over(f, url, priority) ==
    IF url \in f.seen_urls
    THEN [f EXCEPT !.ret = FALSE]
    ELSE IF Len(f.queue) > f.max_size
    THEN [f EXCEPT !.ret = FALSE]
    ELSE [f EXCEPT !.queue = heappush(f.queue, URLInfo(url, priority, f.clock + 1)),
                   !.seen_urls = f.seen_urls \cup {url},
                   !.clock = f.clock + 1,
                   !.ret = TRUE]

\* URLFrontier.add_url
add_url(f, url, priority) ==
    IF url \in f.seen_urls
    THEN [f EXCEPT !.ret = FALSE]
    ELSE IF Len(f.queue) >= f.max_size
    THEN [f EXCEPT !.ret = FALSE]
    ELSE [f EXCEPT !.queue = heappush(f.queue, URLInfo(url, priority, f.clock + 1)),
                   !.seen_urls = f.seen_urls \cup {url},
                   !.clock = f.clock + 1,
                   !.ret = TRUE]

\* URLFrontier.get_next_url
get_next_url(f) ==
    IF f.queue = <<>>
    THEN [f EXCEPT !.ret = None]
    ELSE LET r == heappop(f.queue)
         IN [f EXCEPT !.queue = r[2],
                      !.ret = [url |-> r[1].url, priority |-> r[1].priority]]

\* URLFrontier.size, URLFrontier.is_empty
size(f) == Len(f.queue)
is_empty(f) == Len(f.queue) = 0

\* the frontier variables take the value a call left
SetFrontier(r) ==
    /\ queue' = r.queue
    /\ seen_urls' = r.seen_urls
    /\ clock' = r.clock
    /\ fret' = r.ret
    /\ max_size' = max_size

\* the same for a caller that drops or consumes the return value at once
SetFrontierState(r) ==
    /\ queue' = r.queue
    /\ seen_urls' = r.seen_urls
    /\ clock' = r.clock
    /\ UNCHANGED <<fret, max_size>>

\* ------------------------------------------- callers of a lone frontier
FrontierInit ==
    /\ max_size \in 1..MaxSize
    /\ queue = <<>>
    /\ seen_urls = {}
    /\ clock = 0
    /\ fret = None

HistoryInit ==
    /\ offered = {}
    /\ admitted = [u \in Urls |-> 0]
    /\ firstPrio = [u \in Urls |-> 0]
    /\ lastCall = [op |-> "init"]
    /\ prevPop = 0
    /\ lastPop = 0
    /\ addedBetween = FALSE
    /\ addSincePop = FALSE

CallAddUrl(u, p) ==
    /\ SetFrontier(add_url(Frontier, u, p))
    /\ offered' = offered \cup {u}
    /\ admitted' = [admitted EXCEPT ![u] = IF fret' THEN @ + 1 ELSE @]
    /\ firstPrio' = [firstPrio EXCEPT ![u] = IF fret' /\ @ = 0 THEN p ELSE @]
    /\ lastCall' = [op |-> "add", url |-> u, priority |-> p,
                    preQueue |-> queue,
                    preOffered |-> (u \in offered), preAdmitted |-> admitted[u]]
    /\ addSincePop' = (addSincePop \/ fret')
    /\ UNCHANGED <<prevPop, lastPop, addedBetween>>
    /\ UNCHANGED <<crawlVars, crawlHistoryVars, indexVars, indexHistoryVars, persistVars, priorityVars>>

CallGetNextUrl ==
    /\ SetFrontier(get_next_url(Frontier))
    /\ lastCall' = [op |-> "next", preQueue |-> queue]
    /\ IF fret' = None
       THEN UNCHANGED <<prevPop, lastPop, addedBetween, addSincePop>>
       ELSE /\ prevPop' = lastPop
            /\ lastPop' = fret'.priority
            /\ addedBetween' = addSincePop
            /\ addSincePop' = FALSE
    /\ UNCHANGED <<offered, admitted, firstPrio>>
    /\ UNCHANGED <<crawlVars, crawlHistoryVars, indexVars, indexHistoryVars, persistVars, priorityVars>>

\* InvertedIndex.__init__, and no call yet
IndexIdle ==
    /\ index = <<>>
    /\ document_count = 0
    /\ term_document_count = <<>>
    /\ document_lengths = <<>>
    /\ iret = [op |-> "init"]
    /\ docs = <<>>
    /\ phase = "Empty"
    /\ readded = FALSE
    /\ added_late = FALSE
    /\ finalize_calls = 0
    /\ file = [kind |-> "none", data |-> <<>>]
    /\ saved = None
    /\ calls = 0
    /\ prio_call = [op |-> "init"]
    /\ snip_call = [op |-> "init"]

\* the crawler is not running
CrawlIdle ==
    /\ seed_urls = <<>>
    /\ main_pc = "idle"
    /\ seed_idx = 0
    /\ session = "none"
    /\ worker_pc = <<>>
    /\ worker_url = <<>>
    /\ crawled_urls = {}
    /\ pages_crawled = 0
    /\ fingerprints = {}
    /\ empty_polls = <<>>
    /\ stored = {}
    /\ fetched = {}
    /\ denied = {}

InitFrontier == FrontierInit /\ HistoryInit /\ CrawlIdle /\ IndexIdle

NextFrontier ==
    \/ \E u \in Urls, p \in Priorities : CallAddUrl(u, p)
    \/ CallGetNextUrl

SpecFrontier == InitFrontier /\ [][NextFrontier]_vars

\* ------------------------------------------------------ the crawled web
\* A URL as urlparse sees it; path is a string, a sequence of characters.
Url(scheme, netloc, path) == [scheme |-> scheme, netloc |-> netloc, path |-> path]

Hosts == {"a.com", "b.com"}
CrawlPaths == {<<"/", "x">>}
CrawlUrls == {Url("http", h, p) : h \in Hosts, p \in CrawlPaths}

\* what a page may link to: an absolute http URL, a mailto: URL, and
\* a reference relative to the page's host ("/x")
Links ==
    {Url("http", "b.com", p) : p \in CrawlPaths}
    \cup {Url("mailto", "", <<"x">>)} \cup {Url("", "", p) : p \in CrawlPaths}

SeqsUpTo(S, n) == UNION {[1..k -> S] : k \in 0..n}

Texts == 0..NumTexts
Workers == 1..NumWorkers
max_pages == MaxPages

\* str.strip(c)
RECURSIVE lstrip(_, _)
lstrip(str, c) == IF str # <<>> /\ Head(str) = c THEN lstrip(Tail(str), c) ELSE str

RECURSIVE rstrip(_, _)
rstrip(str, c) ==
    IF str # <<>> /\ str[Len(str)] = c THEN rstrip(SubSeq(str, 1, Len(str) - 1), c) ELSE str

strip(str, c) == rstrip(lstrip(str, c), c)

\* str.split(c): the pieces between the separators, empty pieces included
RECURSIVE split(_, _)
split(str, c) ==
    IF \E i \in 1..Len(str) : str[i] = c
    THEN LET i == CHOOSE k \in 1..Len(str) :
                      str[k] = c /\ \A j \in 1..(k - 1) : str[j] # c
         IN <<SubSeq(str, 1, i - 1)>> \o split(SubSeq(str, i + 1, Len(str)), c)
    ELSE <<str>>

\* urljoin(base_url, link) for an absolute link or a reference "/path"
urljoin(base_url, link) ==
    IF link.scheme = "" THEN Url(base_url.scheme, base_url.netloc, link.path) ELSE link

Max(a, b) == IF a >= b THEN a ELSE b
Min(a, b) == IF a <= b THEN a ELSE b

\* Priorities of the crawl are counted in steps of 0.05: 20 is 1.0.
SeedPriority == 20

\* CrawlerManager._calculate_url_priority
calculate_url_priority(url, referring_url) ==
    LET base == 10
        same == IF url.netloc = referring_url.netloc THEN base + 4 ELSE base
        path_depth == Len(split(strip(url.path, "/"), "/"))
    IN Max(0, Min(20, same - path_depth))

\* CrawlerManager._process_extracted_links: the frontier after offering the links in order
RECURSIVE process_extracted_links(_, _, _)
process_extracted_links(f, links, base_url) ==
    IF links = <<>> THEN f
    ELSE LET absolute_url == urljoin(base_url, Head(links))
             g == IF absolute_url.scheme \notin {"http", "https"}
                  THEN f
                  ELSE add_url(f, absolute_url,
                               calculate_url_priority(absolute_url, base_url))
         IN process_extracted_links(g, Tail(links), base_url)

\* DuplicateDetector: the digest of the normalised text; texts that differ
\* in case or spacing only (2k-1 and 2k) share a fingerprint
fingerprint(text) == (text + 1) \div 2

\* DuplicateDetector.is_duplicate: <<answer, fingerprints afterwards>>
is_duplicate(seen, text) ==
    IF fingerprint(text) \in seen
    THEN <<TRUE, seen>>
    ELSE <<FALSE, seen \cup {fingerprint(text)}>>

\* ------------------------------------- callers of _calculate_url_priority
\* the paths urlparse gives for an http URL: empty, or "/" and what follows
UrlPaths ==
    {<<>>} \cup {<<"/">> \o r : r \in SeqsUpTo({"/", "x"}, MaxPathLen - 1)}

CallCalculateUrlPriority(url, referring_url) ==
    /\ prio_call' = [op |-> "priority", url |-> url, referring_url |-> referring_url,
                     ret |-> calculate_url_priority(url, referring_url)]
    /\ UNCHANGED <<frontierVars, historyVars, crawlVars, crawlHistoryVars, indexVars,
                   indexHistoryVars, persistVars, snip_call>>

InitPriority ==
    /\ max_size = 1 /\ queue = <<>> /\ seen_urls = {} /\ clock = 0 /\ fret = None
    /\ HistoryInit
    /\ CrawlIdle
    /\ IndexIdle

NextPriority ==
    \E h \in Hosts, path \in UrlPaths, ref \in CrawlUrls :
        CallCalculateUrlPriority(Url("http", h, path), ref)

SpecPriority == InitPriority /\ [][NextPriority]_vars

\* --------------------------------------------------------- start_crawling
InitCrawl ==
    /\ max_size \in 1..MaxQueueSize
    /\ queue = <<>> /\ seen_urls = {} /\ clock = 0 /\ fret = None
    /\ HistoryInit
    /\ seed_urls \in SeqsUpTo(CrawlUrls, MaxSeeds)
    /\ main_pc = "seed"
    /\ seed_idx = 1
    /\ session = "none"
    /\ worker_pc = [w \in Workers |-> "new"]
    /\ worker_url = [w \in Workers |-> None]
    /\ crawled_urls = {}
    /\ pages_crawled = 0
    /\ fingerprints = {}
    /\ empty_polls = [w \in Workers |-> 0]
    /\ stored = {}
    /\ fetched = {}
    /\ denied = {}
    /\ IndexIdle

\* for url in seed_urls: await self.url_frontier.add_url(url, priority=1.0)
M_Seed ==
    /\ main_pc = "seed"
    /\ seed_idx <= Len(seed_urls)
    /\ SetFrontierState(add_url(Frontier, seed_urls[seed_idx], SeedPriority))
    /\ seed_idx' = seed_idx + 1
    /\ UNCHANGED <<seed_urls, main_pc, session, worker_pc, worker_url, crawled_urls,
                   pages_crawled, fingerprints>>
    /\ UNCHANGED <<historyVars, indexVars, indexHistoryVars, persistVars, priorityVars, crawlHistoryVars>>

\* the session is created and the max_threads worker tasks are started
M_Start ==
    /\ main_pc = "seed"
    /\ seed_idx > Len(seed_urls)
    /\ session' = "open"
    /\ worker_pc' = [w \in Workers |-> "loop"]
    /\ main_pc' = "gather"
    /\ UNCHANGED <<seed_urls, seed_idx, worker_url, crawled_urls, pages_crawled, fingerprints>>
    /\ UNCHANGED <<frontierVars, historyVars, indexVars, indexHistoryVars, persistVars, priorityVars, crawlHistoryVars>>

\* asyncio.gather returns once every worker has returned; finally: session.close()
M_Finish ==
    /\ main_pc = "gather"
    /\ \A w \in Workers : worker_pc[w] = "done"
    /\ session' = "closed"
    /\ main_pc' = "done"
    /\ UNCHANGED <<seed_urls, seed_idx, worker_pc, worker_url, crawled_urls, pages_crawled,
                   fingerprints>>
    /\ UNCHANGED <<frontierVars, historyVars, indexVars, indexHistoryVars, persistVars, priorityVars, crawlHistoryVars>>

\* --------------------------------------------------------- _crawler_worker
\* A worker runs without interruption from one await that suspends to the
\* next.  The frontier's lock is never held across an await, so its calls
\* do not suspend; the sleeps, can_crawl, wait_for_domain, session.get and
\* response.text do.

\* the loop goes on while pages_crawled <= max_pages
W_Loop_one_more(w) ==
    /\ worker_pc[w] = "loop"
    /\ IF ~(pages_crawled <= max_pages)
       THEN /\ worker_pc' = [worker_pc EXCEPT ![w] = "done"]
            /\ UNCHANGED <<frontierVars, worker_url, empty_polls>>
       ELSE LET r == get_next_url(Frontier) IN
            /\ SetFrontierState(r)
            /\ IF r.ret = None
               THEN /\ worker_pc' = [worker_pc EXCEPT ![w] = "sleep"]
                    /\ empty_polls' = [empty_polls EXCEPT ![w] = Min(@ + 1, KEmpty)]
                    /\ UNCHANGED worker_url
               ELSE /\ empty_polls' = [empty_polls EXCEPT ![w] = 0]
                    /\ IF r.ret.url \in crawled_urls
                       THEN /\ worker_pc' = [worker_pc EXCEPT ![w] = "loop"]
                            /\ UNCHANGED worker_url
                       ELSE /\ worker_pc' = [worker_pc EXCEPT ![w] = "robots"]
                            /\ worker_url' = [worker_url EXCEPT ![w] = r.ret.url]
    /\ UNCHANGED <<seed_urls, main_pc, seed_idx, session, crawled_urls, pages_crawled,
                   fingerprints>>
    /\ UNCHANGED <<historyVars, indexVars, indexHistoryVars, persistVars, priorityVars, stored, fetched, denied>>

\* the loop test, get_next_url and the crawled_urls test
W_Loop(w) ==
    /\ worker_pc[w] = "loop"
    /\ IF ~(pages_crawled < max_pages)
       THEN /\ worker_pc' = [worker_pc EXCEPT ![w] = "done"]
            /\ UNCHANGED <<frontierVars, worker_url, empty_polls>>
       ELSE LET r == get_next_url(Frontier) IN
            /\ SetFrontierState(r)
            /\ IF r.ret = None
               THEN /\ worker_pc' = [worker_pc EXCEPT ![w] = "sleep"]
                    /\ empty_polls' = [empty_polls EXCEPT ![w] = Min(@ + 1, KEmpty)]
                    /\ UNCHANGED worker_url
               ELSE /\ empty_polls' = [empty_polls EXCEPT ![w] = 0]
                    /\ IF r.ret.url \in crawled_urls
                       THEN /\ worker_pc' = [worker_pc EXCEPT ![w] = "loop"]
                            /\ UNCHANGED worker_url
                       ELSE /\ worker_pc' = [worker_pc EXCEPT ![w] = "robots"]
                            /\ worker_url' = [worker_url EXCEPT ![w] = r.ret.url]
    /\ UNCHANGED <<seed_urls, main_pc, seed_idx, session, crawled_urls, pages_crawled,
                   fingerprints>>
    /\ UNCHANGED <<historyVars, indexVars, indexHistoryVars, persistVars, priorityVars, stored, fetched, denied>>

\* asyncio.sleep(1) after an empty frontier, asyncio.sleep(5) after an exception
W_Sleep(w) ==
    /\ worker_pc[w] \in {"sleep", "error_sleep"}
    /\ worker_pc' = [worker_pc EXCEPT ![w] = "loop"]
    /\ UNCHANGED <<seed_urls, main_pc, seed_idx, session, worker_url, crawled_urls,
                   pages_crawled, fingerprints>>
    /\ UNCHANGED <<frontierVars, historyVars, indexVars, indexHistoryVars, persistVars, priorityVars, crawlHistoryVars>>

\* the worker goes on to the politeness wait whatever can_crawl answers
W_Robots_unheeded(w) ==
    /\ worker_pc[w] = "robots"
    /\ \E answer \in {"allow", "deny", "raise"} :
          /\ denied' = IF answer = "deny" THEN denied \cup {worker_url[w]} ELSE denied
          /\ IF answer = "raise"
             THEN /\ worker_pc' = [worker_pc EXCEPT ![w] = "error_sleep"]
                  /\ worker_url' = [worker_url EXCEPT ![w] = None]
             ELSE /\ worker_pc' = [worker_pc EXCEPT ![w] = "polite"]
                  /\ UNCHANGED worker_url
    /\ UNCHANGED <<seed_urls, main_pc, seed_idx, session, crawled_urls, pages_crawled,
                   fingerprints>>
    /\ UNCHANGED <<frontierVars, historyVars, indexVars, indexHistoryVars, persistVars, priorityVars, empty_polls, stored, fetched>>

\* await self.robots_parser.can_crawl(url, 'SearchBot') answers, or raises
W_Robots(w) ==
    /\ worker_pc[w] = "robots"
    /\ \E answer \in {"allow", "deny", "raise"} :
          /\ denied' = IF answer = "deny" THEN denied \cup {worker_url[w]} ELSE denied
          /\ IF answer = "allow"
             THEN /\ worker_pc' = [worker_pc EXCEPT ![w] = "polite"]
                  /\ UNCHANGED worker_url
             ELSE /\ worker_pc' = [worker_pc EXCEPT ![w] =
                                      IF answer = "deny" THEN "loop" ELSE "error_sleep"]
                  /\ worker_url' = [worker_url EXCEPT ![w] = None]
    /\ UNCHANGED <<seed_urls, main_pc, seed_idx, session, crawled_urls, pages_crawled,
                   fingerprints>>
    /\ UNCHANGED <<frontierVars, historyVars, indexVars, indexHistoryVars, persistVars, priorityVars, empty_polls, stored, fetched>>

\* await self.politeness_manager.wait_for_domain(domain) returns and
\* _crawl_page issues session.get(url), or the wait raises
W_Polite(w) ==
    /\ worker_pc[w] = "polite"
    /\ \/ /\ worker_pc' = [worker_pc EXCEPT ![w] = "fetch"]
          /\ fetched' = fetched \cup {worker_url[w]}
          /\ UNCHANGED worker_url
       \/ /\ worker_pc' = [worker_pc EXCEPT ![w] = "error_sleep"]
          /\ worker_url' = [worker_url EXCEPT ![w] = None]
          /\ UNCHANGED fetched
    /\ UNCHANGED <<seed_urls, main_pc, seed_idx, session, crawled_urls, pages_crawled,
                   fingerprints>>
    /\ UNCHANGED <<frontierVars, historyVars, indexVars, indexHistoryVars, persistVars, priorityVars, empty_polls, stored, denied>>

\* what session.get may bring: an exception, or a status and a content type
Responses ==
    {[error |-> TRUE, status |-> 0, content_type |-> ""]}
    \cup {[error |-> FALSE, status |-> st, content_type |-> ct] :
             st \in {200, 404}, ct \in {"text/html", "image/png"}}

\* _crawl_page up to "await response.text()": None unless 200 and text/html
W_Fetch(w) ==
    /\ worker_pc[w] = "fetch"
    /\ \E response \in Responses :
          IF response.error \/ response.status # 200 \/ response.content_type # "text/html"
          THEN /\ worker_pc' = [worker_pc EXCEPT ![w] = "loop"]
               /\ worker_url' = [worker_url EXCEPT ![w] = None]
          ELSE /\ worker_pc' = [worker_pc EXCEPT ![w] = "body"]
               /\ UNCHANGED worker_url
    /\ UNCHANGED <<seed_urls, main_pc, seed_idx, session, crawled_urls, pages_crawled,
                   fingerprints>>
    /\ UNCHANGED <<frontierVars, historyVars, indexVars, indexHistoryVars, persistVars, priorityVars, crawlHistoryVars>>

CrawledPage(url, content, links) == [url |-> url, content |-> content, links |-> links]

\* a page is returned although the detector calls it a duplicate
crawl_page_result_any(duplicate, url, content, links) ==
    CrawledPage(url, content, links)

\* _crawl_page after the duplicate check: None for a duplicate, else the page
crawl_page_result(duplicate, url, content, links) ==
    IF duplicate THEN None ELSE CrawledPage(url, content, links)

\* response.text() arrives (or raises); parse_html, is_duplicate, and for
\* a returned page: crawled_urls, pages_crawled, the links, the store
W_Body(w) ==
    /\ worker_pc[w] = "body"
    /\ worker_pc' = [worker_pc EXCEPT ![w] = "loop"]
    /\ worker_url' = [worker_url EXCEPT ![w] = None]
    /\ \/ UNCHANGED <<frontierVars, crawled_urls, pages_crawled, fingerprints, stored>>
       \/ \E content \in Texts, links \in SeqsUpTo(Links, MaxLinks) :
             LET d == is_duplicate(fingerprints, content)
                 crawled_page == crawl_page_result(d[1], worker_url[w], content, links)
             IN /\ fingerprints' = d[2]
                /\ IF crawled_page = None
                   THEN UNCHANGED <<frontierVars, crawled_urls, pages_crawled, stored>>
                   ELSE /\ crawled_urls' = crawled_urls \cup {crawled_page.url}
                        /\ pages_crawled' = pages_crawled + 1
                        /\ SetFrontierState(process_extracted_links(Frontier, crawled_page.links,
                                                               crawled_page.url))
                        /\ stored' = stored \cup {[url |-> crawled_page.url,
                                                    content |-> crawled_page.content]}
    /\ UNCHANGED <<seed_urls, main_pc, seed_idx, session>>
    /\ UNCHANGED <<historyVars, indexVars, indexHistoryVars, persistVars, priorityVars, empty_polls, fetched, denied>>

NextCrawl ==
    \/ M_Seed
    \/ M_Start
    \/ M_Finish
    \/ \E w \in Workers : W_Loop(w)
    \/ \E w \in Workers : W_Sleep(w)
    \/ \E w \in Workers : W_Robots(w)
    \/ \E w \in Workers : W_Polite(w)
    \/ \E w \in Workers : W_Fetch(w)
    \/ \E w \in Workers : W_Body(w)

SpecCrawl == InitCrawl /\ [][NextCrawl]_vars

\* The event loop runs a task that is ready, and every await of the crawl
\* returns or raises (the session has a total timeout): some step is taken
\* while one is possible.
\* start_crawling with three distinct seeds, one more than a budget of one
\* page and two workers can count, and a frontier that holds them all
BudgetSeeds ==
    <<Url("http", "a.com", <<"/", "x">>), Url("http", "b.com", <<"/", "x">>),
      Url("http", "c.com", <<"/", "x">>)>>

InitBudget ==
    /\ max_size = Len(BudgetSeeds)
    /\ queue = <<>> /\ seen_urls = {} /\ clock = 0 /\ fret = None
    /\ HistoryInit
    /\ seed_urls = BudgetSeeds
    /\ main_pc = "seed"
    /\ seed_idx = 1
    /\ session = "none"
    /\ worker_pc = [w \in Workers |-> "new"]
    /\ worker_url = [w \in Workers |-> None]
    /\ crawled_urls = {}
    /\ pages_crawled = 0
    /\ fingerprints = {}
    /\ empty_polls = [w \in Workers |-> 0]
    /\ stored = {}
    /\ fetched = {}
    /\ denied = {}
    /\ IndexIdle

SpecBudget == InitBudget /\ [][NextCrawl]_vars

SpecCrawlFair == SpecCrawl /\ WF_vars(NextCrawl)

\* ---------------------------------------------------------- InvertedIndex
DocIds == 1..NumDocs
Terms == {"cat", "dog"}

\* dict[k] = v, and dict.get(k, default)
Put(dict, k, v) == [x \in (DOMAIN dict) \cup {k} |-> IF x = k THEN v ELSE dict[x]]
Get(dict, k, default) == IF k \in DOMAIN dict THEN dict[k] ELSE default

RECURSIVE GCD(_, _)
GCD(a, b) == IF b = 0 THEN a ELSE GCD(b, a % b)

\* A score is kept as the exact expression the floats stand for:
\* (num / den) * ln(n1 / d1) * ln(n2 / d2) ..., fractions in lowest terms.
\* Zero is the score 0.0.
Zero == [num |-> 0, den |-> 1, logs |-> <<>>]

\* freq / len(terms)
TF(freq, len) ==
    LET g == GCD(freq, len) IN [num |-> freq \div g, den |-> len \div g, logs |-> <<>>]

\* math.log(self.document_count / df) if df > 0 else 0; ln 1 stands for 0
Idf(count, df) ==
    IF df > 0
    THEN LET g == GCD(count, df) IN [n |-> count \div g, d |-> df \div g]
    ELSE [n |-> 1, d |-> 1]

\* tf * idf
Times(score, idf) ==
    IF score.num = 0 \/ idf.n = idf.d
    THEN Zero
    ELSE [score EXCEPT !.logs = Append(@, idf)]

\* the state of an index as a value
IndexState ==
    [index |-> index, document_count |-> document_count,
     term_document_count |-> term_document_count, document_lengths |-> document_lengths]

Occurrences(terms, term) == Cardinality({i \in 1..Len(terms) : terms[i] = term})
UniqueTerms(terms) == {terms[i] : i \in 1..Len(terms)}

\* add_document taking the frequency over the number of distinct terms
add_document_over_unique(st, doc_id, terms) ==
    IF terms = <<>> THEN st
    ELSE LET unique_terms == UniqueTerms(terms)
             new_terms == {t \in unique_terms : doc_id \notin DOMAIN Get(st.index, t, <<>>)}
             counted == [t \in (DOMAIN st.term_document_count) \cup new_terms |->
                            IF t \in new_terms
                            THEN Get(st.term_document_count, t, 0) + 1
                            ELSE st.term_document_count[t]]
             posted == [t \in (DOMAIN st.index) \cup unique_terms |->
                           IF t \in unique_terms
                           THEN Put(Get(st.index, t, <<>>), doc_id,
                                    TF(Occurrences(terms, t), Cardinality(unique_terms)))
                           ELSE st.index[t]]
         IN [index |-> posted,
             document_count |-> st.document_count + 1,
             term_document_count |-> counted,
             document_lengths |-> Put(st.document_lengths, doc_id, Len(terms))]

\* add_document that counts a document for a term each time it is added
add_document_counts_again(st, doc_id, terms) ==
    IF terms = <<>> THEN st
    ELSE LET unique_terms == UniqueTerms(terms)
             new_terms == unique_terms
             counted == [t \in (DOMAIN st.term_document_count) \cup new_terms |->
                            IF t \in new_terms
                            THEN Get(st.term_document_count, t, 0) + 1
                            ELSE st.term_document_count[t]]
             posted == [t \in (DOMAIN st.index) \cup unique_terms |->
                           IF t \in unique_terms
                           THEN Put(Get(st.index, t, <<>>), doc_id,
                                    TF(Occurrences(terms, t), Len(terms)))
                           ELSE st.index[t]]
         IN [index |-> posted,
             document_count |-> st.document_count + 1,
             term_document_count |-> counted,
             document_lengths |-> Put(st.document_lengths, doc_id, Len(terms))]

\* InvertedIndex.add_document
add_document(st, doc_id, terms) ==
    IF terms = <<>> THEN st
    ELSE LET unique_terms == UniqueTerms(terms)
             new_terms == {t \in unique_terms : doc_id \notin DOMAIN Get(st.index, t, <<>>)}
             counted == [t \in (DOMAIN st.term_document_count) \cup new_terms |->
                            IF t \in new_terms
                            THEN Get(st.term_document_count, t, 0) + 1
                            ELSE st.term_document_count[t]]
             posted == [t \in (DOMAIN st.index) \cup unique_terms |->
                           IF t \in unique_terms
                           THEN Put(Get(st.index, t, <<>>), doc_id,
                                    TF(Occurrences(terms, t), Len(terms)))
                           ELSE st.index[t]]
         IN [index |-> posted,
             document_count |-> st.document_count + 1,
             term_document_count |-> counted,
             document_lengths |-> Put(st.document_lengths, doc_id, Len(terms))]

\* InvertedIndex.calculate_tfidf_scores; reading term_document_count[term]
\* (a defaultdict) leaves a 0 there for a term it lacks
calculate_tfidf_scores(st) ==
    [st EXCEPT
        !.index = [t \in DOMAIN st.index |->
                      [d \in DOMAIN st.index[t] |->
                          Times(st.index[t][d],
                                Idf(st.document_count, Get(st.term_document_count, t, 0)))]],
        !.term_document_count =
            [t \in (DOMAIN st.term_document_count) \cup (DOMAIN st.index) |->
                Get(st.term_document_count, t, 0)]]

\* ln(n / d) in units of 1e-4, for the ratios of small counts
Ln10k(n, d) ==
    CASE n = d -> 0
      [] n = 2 /\ d = 1 -> 6931
      [] n = 3 /\ d = 1 -> 10986
      [] n = 3 /\ d = 2 -> 4055
      [] n = 4 /\ d = 1 -> 13863
      [] n = 4 /\ d = 3 -> 2877
      [] n = 5 /\ d = 1 -> 16094
      [] n = 5 /\ d = 2 -> 9163
      [] n = 5 /\ d = 3 -> 5108
      [] n = 5 /\ d = 4 -> 2231

\* the float a score is, in units of 1e-4
RECURSIVE ScaleByLogs(_, _)
ScaleByLogs(v, logs) ==
    IF logs = <<>> THEN v
    ELSE ScaleByLogs((v * Ln10k(Head(logs).n, Head(logs).d)) \div 10000, Tail(logs))

Value(score) == ScaleByLogs((score.num * 10000) \div score.den, score.logs)

\* all orders in which a set may be iterated
Orders(S) == {o \in [1..Cardinality(S) -> S] : \A x \in S : \E i \in DOMAIN o : o[i] = x}

Range(seq) == {seq[i] : i \in DOMAIN seq}

\* the keys of doc_scores in insertion order: for each query term in turn,
\* the candidates (as the set iterates) that the term's postings hold
RECURSIVE InsertionOrder(_, _, _, _)
InsertionOrder(idx, query_terms, iteration, acc) ==
    IF query_terms = <<>> THEN acc
    ELSE LET term == Head(query_terms)
             fresh(d) == d \in DOMAIN Get(idx, term, <<>>) /\ d \notin Range(acc)
         IN InsertionOrder(idx, Tail(query_terms), iteration,
                           acc \o SelectSeq(iteration, fresh))

\* doc_scores[doc_id]: one addend per occurrence of a term in the query
RECURSIVE DocScore(_, _, _)
DocScore(idx, query_terms, doc_id) ==
    IF query_terms = <<>> THEN 0
    ELSE LET postings == Get(idx, Head(query_terms), <<>>)
         IN (IF doc_id \in DOMAIN postings THEN Value(postings[doc_id]) ELSE 0)
            + DocScore(idx, Tail(query_terms), doc_id)

\* sorted(items, key=score, reverse=True): stable, equal scores keep their order
RECURSIVE SortedByScore(_, _)
SortedByScore(items, acc) ==
    IF items = <<>> THEN acc
    ELSE LET x == Head(items)
             k == Cardinality({i \in 1..Len(acc) : acc[i][2] >= x[2]})
         IN SortedByScore(Tail(items),
                          SubSeq(acc, 1, k) \o <<x>> \o SubSeq(acc, k + 1, Len(acc)))

\* search that returns the first limit entries of doc_scores as they were inserted
search_unsorted(idx, query_terms, limit, iteration) ==
    IF query_terms = <<>> THEN <<>>
    ELSE LET order == InsertionOrder(idx, query_terms, iteration, <<>>)
             items == [i \in 1..Len(order) |->
                          <<order[i], DocScore(idx, query_terms, order[i])>>]
         IN SubSeq(items, 1, Min(limit, Len(items)))

\* InvertedIndex.search, the candidate set iterating in the order iteration
search(idx, query_terms, limit, iteration) ==
    IF query_terms = <<>> THEN <<>>
    ELSE LET order == InsertionOrder(idx, query_terms, iteration, <<>>)
             items == [i \in 1..Len(order) |->
                          <<order[i], DocScore(idx, query_terms, order[i])>>]
             results == SortedByScore(items, <<>>)
         IN SubSeq(results, 1, Min(limit, Len(results)))

\* candidate_docs of search
CandidateDocs(idx, query_terms) ==
    UNION {DOMAIN Get(idx, query_terms[i], <<>>) : i \in 1..Len(query_terms)}

\* ------------------------------------------------ callers of a lone index
SetIndex(st) ==
    /\ index' = st.index
    /\ document_count' = st.document_count
    /\ term_document_count' = st.term_document_count
    /\ document_lengths' = st.document_lengths

notIndexVars == <<frontierVars, historyVars, crawlVars, crawlHistoryVars, priorityVars>>

CallAddDocument(doc_id, terms) ==
    /\ document_count < MaxDocCount
    /\ SetIndex(add_document(IndexState, doc_id, terms))
    /\ iret' = [op |-> "add", outcome |-> "ok", prePhase |-> phase]
    /\ IF terms = <<>>
       THEN UNCHANGED <<docs, phase, readded, added_late>>
       ELSE /\ docs' = Put(docs, doc_id, terms)
            /\ phase' = IF phase = "Empty" THEN "Ingesting" ELSE phase
            /\ readded' = (readded \/ doc_id \in DOMAIN docs)
            /\ added_late' = (added_late \/ finalize_calls > 0)
    /\ UNCHANGED <<finalize_calls, notIndexVars, persistVars>>

CallCalculateTfidfScores ==
    /\ finalize_calls < MaxFinalize
    /\ SetIndex(calculate_tfidf_scores(IndexState))
    /\ iret' = [op |-> "finalize", outcome |-> "ok", prePhase |-> phase, pre |-> IndexState,
                repeat |-> (iret.op = "finalize")]
    /\ phase' = "Finalized"
    /\ finalize_calls' = finalize_calls + 1
    /\ UNCHANGED <<docs, readded, added_late, notIndexVars, persistVars>>

CallSearch(query_terms, limit) ==
    /\ \E iteration \in Orders(CandidateDocs(index, query_terms)) :
          iret' = [op |-> "search", outcome |-> "ok", prePhase |-> phase,
                   query_terms |-> query_terms, limit |-> limit,
                   result |-> search(index, query_terms, limit, iteration)]
    /\ UNCHANGED <<indexVars, docs, phase, readded, added_late, finalize_calls, notIndexVars,
                   persistVars>>

InitIndex ==
    /\ IndexIdle
    /\ max_size = 1 /\ queue = <<>> /\ seen_urls = {} /\ clock = 0 /\ fret = None
    /\ HistoryInit
    /\ CrawlIdle

\* an index that is built and finalized
NextIndex ==
    \/ \E d \in DocIds, terms \in SeqsUpTo(Terms, MaxLen) : CallAddDocument(d, terms)
    \/ CallCalculateTfidfScores

SpecIndex == InitIndex /\ [][NextIndex]_vars

\* an index that is built, finalized and searched
NextSearch ==
    \/ \E d \in DocIds, terms \in SeqsUpTo(Terms, MaxLen) : CallAddDocument(d, terms)
    \/ CallCalculateTfidfScores
    \/ \E q \in SeqsUpTo(Terms, MaxQuery), limit \in 0..MaxLimit : CallSearch(q, limit)

SpecSearch == InitIndex /\ [][NextSearch]_vars

\* the token lists of a small corpus
Corpus == {<<"cat">>, <<"cat", "dog">>}

\* an index built from the corpus, finalized and searched
NextQuery ==
    \/ \E d \in DocIds, terms \in Corpus : CallAddDocument(d, terms)
    \/ CallCalculateTfidfScores
    \/ \E q \in SeqsUpTo(Terms, MaxQuery), limit \in 0..MaxLimit : CallSearch(q, limit)

SpecQuery == InitIndex /\ [][NextQuery]_vars

\* --------------------------------------------- callers that add documents
\* add_document, the call before it kept with the state it found
R_AddDocument(doc_id, terms) ==
    /\ document_count < MaxDocCount
    /\ SetIndex(add_document(IndexState, doc_id, terms))
    /\ iret' = [op |-> "add", doc_id |-> doc_id, terms |-> terms, pre |-> IndexState,
                prev |-> IF iret.op = "add"
                         THEN [op |-> "add", doc_id |-> iret.doc_id, terms |-> iret.terms,
                               pre |-> iret.pre]
                         ELSE [op |-> "init", doc_id |-> 0, terms |-> <<>>, pre |-> None]]
    /\ UNCHANGED <<docs, phase, readded, added_late, finalize_calls, notIndexVars, persistVars>>

NextReadd == \E d \in DocIds, terms \in SeqsUpTo(Terms, MaxLen) : R_AddDocument(d, terms)

SpecReadd == InitIndex /\ [][NextReadd]_vars

\* ------------------------------------------- save_to_file, load_from_file
Sections == {"index", "document_count", "term_document_count", "document_lengths"}

\* save_to_file: the dictionary that pickle.dump writes to filepath
save_to_file(st) == [kind |-> "pickle", data |-> [s \in Sections |-> st[s]]]

\* What open(filepath, 'rb') and pickle.load may bring: no file; the
\* dictionary that was written; bytes that do not unpickle; or a dictionary
\* that lacks some of the sections.
FileViews(f) ==
    IF f.kind = "none" THEN {f}
    ELSE {[kind |-> "corrupt", data |-> <<>>]}
         \cup {[kind |-> "pickle", data |-> [s \in D |-> f.data[s]]] : D \in SUBSET Sections}

\* load_from_file that leaves self.document_lengths as it was
load_from_file_keeps_lengths(st, view) ==
    IF view.kind = "none" THEN [st |-> st, error |-> "FileNotFoundError"]
    ELSE IF view.kind = "corrupt" THEN [st |-> st, error |-> "UnpicklingError"]
    ELSE LET data == view.data
             s1 == [st EXCEPT !.index = data["index"]]
             s2 == [s1 EXCEPT !.document_count = data["document_count"]]
             s3 == [s2 EXCEPT !.term_document_count = data["term_document_count"]]
         IN IF "index" \notin DOMAIN data THEN [st |-> st, error |-> "KeyError"]
            ELSE IF "document_count" \notin DOMAIN data THEN [st |-> s1, error |-> "KeyError"]
            ELSE IF "term_document_count" \notin DOMAIN data
            THEN [st |-> s2, error |-> "KeyError"]
            ELSE IF "document_lengths" \notin DOMAIN data THEN [st |-> s3, error |-> "KeyError"]
            ELSE [st |-> s3, error |-> "none"]

\* load_from_file: the index afterwards and the exception raised ("none":
\* none).  The four attributes are assigned one after the other, each from
\* data[section].
load_from_file(st, view) ==
    IF view.kind = "none" THEN [st |-> st, error |-> "FileNotFoundError"]
    ELSE IF view.kind = "corrupt" THEN [st |-> st, error |-> "UnpicklingError"]
    ELSE LET data == view.data
             s1 == [st EXCEPT !.index = data["index"]]
             s2 == [s1 EXCEPT !.document_count = data["document_count"]]
             s3 == [s2 EXCEPT !.term_document_count = data["term_document_count"]]
             s4 == [s3 EXCEPT !.document_lengths = data["document_lengths"]]
         IN IF "index" \notin DOMAIN data THEN [st |-> st, error |-> "KeyError"]
            ELSE IF "document_count" \notin DOMAIN data THEN [st |-> s1, error |-> "KeyError"]
            ELSE IF "term_document_count" \notin DOMAIN data
            THEN [st |-> s2, error |-> "KeyError"]
            ELSE IF "document_lengths" \notin DOMAIN data THEN [st |-> s3, error |-> "KeyError"]
            ELSE [st |-> s4, error |-> "none"]

\* --------------------------------------------- callers of save and load
P_AddDocument(doc_id, terms) ==
    /\ calls < MaxCalls
    /\ document_count < MaxDocCount
    /\ SetIndex(add_document(IndexState, doc_id, terms))
    /\ iret' = [op |-> "add"]
    /\ calls' = calls + 1
    /\ UNCHANGED <<docs, phase, readded, added_late, finalize_calls, file, saved, notIndexVars>>

P_CalculateTfidfScores ==
    /\ calls < MaxCalls
    /\ finalize_calls < MaxFinalize
    /\ SetIndex(calculate_tfidf_scores(IndexState))
    /\ iret' = [op |-> "finalize"]
    /\ finalize_calls' = finalize_calls + 1
    /\ calls' = calls + 1
    /\ UNCHANGED <<docs, phase, readded, added_late, file, saved, notIndexVars>>

\* InvertedIndex(): the loading process builds a new index object
P_NewIndex ==
    /\ calls < MaxCalls
    /\ index' = <<>>
    /\ document_count' = 0
    /\ term_document_count' = <<>>
    /\ document_lengths' = <<>>
    /\ iret' = [op |-> "new"]
    /\ calls' = calls + 1
    /\ UNCHANGED <<docs, phase, readded, added_late, finalize_calls, file, saved, notIndexVars>>

P_SaveToFile ==
    /\ calls < MaxCalls
    /\ file' = save_to_file(IndexState)
    /\ saved' = IndexState
    /\ iret' = [op |-> "save"]
    /\ calls' = calls + 1
    /\ UNCHANGED <<indexVars, docs, phase, readded, added_late, finalize_calls, notIndexVars>>

P_LoadFromFile ==
    /\ calls < MaxCalls
    /\ \E view \in FileViews(file) :
          LET r == load_from_file(IndexState, view) IN
          /\ SetIndex(r.st)
          /\ iret' = [op |-> "load", error |-> r.error, pre |-> IndexState,
                      intact |-> (view = file)]
    /\ calls' = calls + 1
    /\ UNCHANGED <<docs, phase, readded, added_late, finalize_calls, file, saved, notIndexVars>>

NextPersist ==
    \/ \E d \in DocIds, terms \in Corpus : P_AddDocument(d, terms)
    \/ P_CalculateTfidfScores
    \/ P_NewIndex
    \/ P_SaveToFile
    \/ P_LoadFromFile

SpecPersist == InitIndex /\ [][NextPersist]_vars

\* ------------------------------------------------------ _generate_snippet
\* strings are sequences of the characters "a", "A" and "b"
Chars == {"a", "A", "b"}

\* str.lower()
lower(str) == [i \in DOMAIN str |-> IF str[i] = "A" THEN "a" ELSE str[i]]

\* str.find(sub): the lowest 0-based index where sub occurs, -1 if none
find(str, sub) ==
    LET at == {i \in 0..(Len(str) - Len(sub)) : SubSeq(str, i + 1, i + Len(sub)) = sub}
    IN IF at = {} THEN -1 ELSE CHOOSE i \in at : \A j \in at : i <= j

\* str[a:b] for 0 <= a
Slice(str, a, b) == SubSeq(str, a + 1, Min(b, Len(str)))

Ellipsis == <<".", ".", ".">>

\* the loop over query_terms that lowers first_match to the earliest position
RECURSIVE first_match_of(_, _, _)
first_match_of(content_lower, query_terms, first_match) ==
    IF query_terms = <<>> THEN first_match
    ELSE LET pos == find(content_lower, lower(Head(query_terms)))
         IN first_match_of(content_lower, Tail(query_terms),
                           IF pos # -1 /\ pos < first_match THEN pos ELSE first_match)

\* SearchAPI._generate_snippet
generate_snippet(content, query_terms, max_length) ==
    IF content = <<>> \/ query_terms = <<>>
    THEN IF Len(content) > max_length
         THEN Slice(content, 0, max_length) \o Ellipsis
         ELSE content
    ELSE LET first_match == first_match_of(lower(content), query_terms, Len(content))
             start == Max(0, first_match - max_length \div 2)
             end == Min(Len(content), start + max_length)
             snippet == Slice(content, start, end)
             headed == IF start > 0 THEN Ellipsis \o snippet ELSE snippet
         IN IF end < Len(content) THEN headed \o Ellipsis ELSE headed

\* the non-empty query terms
QueryTerms == SeqsUpTo(Chars, MaxTermLen) \ {<<>>}

\* a caller holds a content, the terms of a query and a max_length
InitSnippet ==
    /\ max_size = 1 /\ queue = <<>> /\ seen_urls = {} /\ clock = 0 /\ fret = None
    /\ HistoryInit
    /\ CrawlIdle
    /\ index = <<>> /\ document_count = 0
    /\ term_document_count = <<>> /\ document_lengths = <<>>
    /\ iret = [op |-> "init"] /\ docs = <<>> /\ phase = "Empty"
    /\ readded = FALSE /\ added_late = FALSE /\ finalize_calls = 0
    /\ file = [kind |-> "none", data |-> <<>>] /\ saved = None /\ calls = 0
    /\ prio_call = [op |-> "init"]
    /\ \E content \in SeqsUpTo(Chars, MaxContentLen),
          query_terms \in SeqsUpTo(QueryTerms, MaxQuery),
          max_length \in 1..MaxSnippetLen :
            snip_call = [op |-> "args", content |-> content, query_terms |-> query_terms,
                         max_length |-> max_length, ret |-> <<>>]

\* the caller calls _generate_snippet with what it holds
CallGenerateSnippet ==
    /\ snip_call.op = "args"
    /\ snip_call' = [snip_call EXCEPT
                        !.op = "snippet",
                        !.ret = generate_snippet(snip_call.content, snip_call.query_terms,
                                                 snip_call.max_length)]
    /\ UNCHANGED <<frontierVars, historyVars, crawlVars, crawlHistoryVars, indexVars,
                   indexHistoryVars, persistVars, prio_call>>

NextSnippet == CallGenerateSnippet

SpecSnippet == InitSnippet /\ [][NextSnippet]_vars

\* ------------------------------------------------- claims on the frontier
QueuedUrls(q) == {q[i].url : i \in 1..Len(q)}

\* C1: for every URL u, add_url(u, _) returns True at most once over the
\* frontier's lifetime, also after u was popped and whatever the priority
\* of a later offer.
C1_AdmittedAtMostOnce == \A u \in Urls : admitted[u] <= 1

\* an already popped URL is offered again with another priority and refused
C1_Witness ==
    /\ lastCall.op = "add"
    /\ lastCall.preAdmitted = 1
    /\ lastCall.url \notin QueuedUrls(lastCall.preQueue)
    /\ lastCall.priority # firstPrio[lastCall.url]
    /\ fret = FALSE

\* C2 as stated: of two successive successful pops, the first has the
\* priority that is at least the second's, in any run.
C2_PopsNeverIncrease ==
    (prevPop # 0 /\ lastPop # 0) => prevPop >= lastPop

\* C2 amended: of two successive successful pops with no accepted add_url
\* between them, the first has a priority at least the second's.
C2_PopsDecreaseWithoutAdd ==
    (prevPop # 0 /\ lastPop # 0 /\ ~addedBetween) => prevPop >= lastPop

C2_Witness ==
    /\ prevPop # 0 /\ lastPop # 0 /\ ~addedBetween
    /\ prevPop > lastPop
    /\ lastCall.op = "next"

\* C3: get_next_url on a non-empty frontier removes and returns the queued
\* URL of greatest priority, the earliest added among those of that
\* priority; on an empty frontier it returns empty at once.
C3_NextIsGreatestThenEarliest ==
    lastCall.op = "next" =>
        LET q == lastCall.preQueue IN
        IF q = <<>>
        THEN fret = None /\ queue = <<>>
        ELSE /\ fret # None
             /\ \E i \in 1..Len(q) :
                   /\ q[i].url = fret.url
                   /\ q[i].priority = fret.priority
                   /\ \A j \in 1..Len(q) :
                         \/ q[j].priority < q[i].priority
                         \/ /\ q[j].priority = q[i].priority
                            /\ q[j].discovery_time >= q[i].discovery_time
                   /\ QueuedUrls(queue) = QueuedUrls(q) \ {q[i].url}
                   /\ Len(queue) = Len(q) - 1

\* C4 as stated: add_url returns False whenever the URL was offered before
\* or the queue is at capacity, and then leaves the queue as it was.
C4_OfferedOrFullIsRefused ==
    (lastCall.op = "add"
       /\ (lastCall.preOffered
            \/ Len(lastCall.preQueue) >= max_size))
    => (fret = FALSE /\ queue = lastCall.preQueue)

\* C4 amended: add_url returns False whenever the URL was accepted before
\* (whatever the priorities) or the queue is at capacity; a refused add
\* leaves the queue as it was, and every queued URL keeps the priority of
\* its accepted offer.
C4_AcceptedOrFullIsRefused ==
    /\ (lastCall.op = "add"
          /\ (lastCall.preAdmitted >= 1
               \/ Len(lastCall.preQueue) >= max_size))
       => (fret = FALSE /\ queue = lastCall.preQueue)
    /\ (lastCall.op = "add" /\ fret = FALSE)
       => (queue = lastCall.preQueue /\ Len(queue) = Len(lastCall.preQueue))
    /\ \A i \in 1..Len(queue) : queue[i].priority = firstPrio[queue[i].url]

\* a queued URL is offered again with a higher priority and refused
C4_Witness ==
    /\ lastCall.op = "add"
    /\ lastCall.preAdmitted = 1
    /\ lastCall.url \in QueuedUrls(queue)
    /\ lastCall.priority > firstPrio[lastCall.url]
    /\ fret = FALSE

\* a new URL is refused because the queue is full
C4_WitnessFull ==
    /\ lastCall.op = "add"
    /\ ~lastCall.preOffered
    /\ Len(lastCall.preQueue) = max_size
    /\ fret = FALSE

\* --------------------------------------------------- claims on the crawl
\* the frontier is drained for good: nothing queued, no worker holds an
\* item, and the page budget is not reached
Drained ==
    /\ main_pc = "gather"
    /\ queue = <<>>
    /\ \A w \in Workers : worker_url[w] = None
    /\ pages_crawled < max_pages

\* C5: once the frontier is drained with the page budget not reached, a
\* worker that has seen KEmpty consecutive empty get_next_url results has
\* terminated (so that all workers unwind and start_crawling returns).
C5_DrainedWorkersStop ==
    Drained => \A w \in Workers : empty_polls[w] >= KEmpty => worker_pc[w] = "done"

\* C6: no page fetch is issued for a URL for which can_crawl answered deny.
C6_NoFetchOfDenied == fetched \cap denied = {}

\* a URL was denied and dropped, another was fetched
C6_Witness == denied # {} /\ fetched # {} /\ fetched \cap denied = {}

\* C7: any two distinct pages accepted during one crawl (counted in
\* pages_crawled and handed to the store) have texts of different
\* fingerprints, whatever the interleaving of the workers.
C7_NoDuplicateStorage ==
    /\ \A p1, p2 \in stored : p1 # p2 => fingerprint(p1.content) # fingerprint(p2.content)
    /\ Cardinality(stored) = pages_crawled

\* two pages were accepted, by workers that held their items at the same time
C7_Witness ==
    /\ Cardinality(stored) >= 2
    /\ pages_crawled > max_pages

\* C14: once pages_crawled has reached max_pages no URL leaves the frontier
\* any more; every worker finishes at most the item it holds and leaves its
\* loop, and then the session is closed and start_crawling returns.
C14_BudgetStop ==
    /\ [][pages_crawled >= max_pages =>
             /\ QueuedUrls(queue) \subseteq QueuedUrls(queue')
             /\ \A w \in Workers : worker_url[w] = None => worker_url'[w] = None]_vars
    /\ (main_pc = "gather" /\ pages_crawled >= max_pages)
          ~> (main_pc = "done" /\ session = "closed"
                /\ \A w \in Workers : worker_pc[w] = "done")

\* start_crawling has returned with the budget reached and a URL still queued
C14_Witness ==
    /\ main_pc = "done"
    /\ session = "closed"
    /\ pages_crawled >= max_pages
    /\ queue # <<>>

\* C15: whatever the order in which callers (the seed insertion, the link
\* expansion of any worker, the workers' get_next_url) reach the frontier,
\* the queue never holds more than max_size URLs; a URL offered while the
\* queue is full is dropped: the queue stays as it was and the URL is not
\* remembered.
C15_HardSizeCap ==
    /\ Len(queue) <= max_size
    /\ Cardinality(QueuedUrls(queue)) = Len(queue)
    /\ (lastCall.op = "add" /\ Len(lastCall.preQueue) >= max_size) =>
          /\ fret = FALSE
          /\ queue = lastCall.preQueue
          /\ lastCall.preAdmitted = 0 => lastCall.url \notin seen_urls

\* the queue is full and a URL never accepted before is offered and dropped
C15_Witness ==
    /\ lastCall.op = "add"
    /\ lastCall.preAdmitted = 0
    /\ Len(lastCall.preQueue) = max_size
    /\ Len(queue) = max_size
    /\ lastCall.url \notin seen_urls
    /\ max_size >= 2

\* C22: with NumWorkers workers interleaving at their awaits, pages_crawled
\* never exceeds max_pages + NumWorkers - 1, and it always equals the number
\* of URLs in crawled_urls (no URL is counted twice).
C22_BoundedOvershoot ==
    /\ pages_crawled <= max_pages + NumWorkers - 1
    /\ pages_crawled = Cardinality(crawled_urls)

\* every other worker held an item when the budget was reached and each of
\* them went on to count its page, while a URL is still queued
C22_Witness ==
    /\ pages_crawled = max_pages + NumWorkers - 1
    /\ NumWorkers >= 2
    /\ queue # <<>>
    /\ \A w \in Workers : worker_pc[w] = "done"

\* C19: a fetched page (200, text/html) whose parsed text is empty is
\* rejected: it is not counted in pages_crawled, not handed to the store and
\* its links are not offered to the frontier.  (Text 0 is the empty text; a
\* page is counted and its links offered exactly when it is stored.)
C19_EmptyTextRejected == \A p \in stored : p.content # 0

\* C20: for every link and referring URL the priority is 0.5, plus 0.2 when
\* the hosts are equal, minus 0.05 for each non-empty segment of the link's
\* path, clamped to [0.0, 1.0], whatever the path (empty, "/", trailing or
\* repeated slashes).  Priorities are counted in steps of 0.05.
C20_LinkPriority ==
    prio_call.op = "priority" =>
        LET same == IF prio_call.url.netloc = prio_call.referring_url.netloc THEN 4 ELSE 0
            parts == split(prio_call.url.path, "/")
            segments == Cardinality({i \in 1..Len(parts) : parts[i] # <<>>})
            expected == 10 + same - segments
        IN /\ prio_call.ret = Max(0, Min(20, expected))
           /\ prio_call.ret \in 0..20

\* --------------------------------------------------- claims on the index
\* C8: after add_document calls with pairwise distinct doc ids followed by
\* one calculate_tfidf_scores call, every stored score of a term t and a
\* document d in index[t] is (occurrences of t in d / token count of d)
\* * ln(document_count / term_document_count[t]).
C8_ScoresAfterFinalize ==
    (finalize_calls = 1 /\ ~readded /\ ~added_late) =>
        \A t \in DOMAIN index : \A d \in DOMAIN index[t] :
            index[t][d] = Times(TF(Occurrences(docs[d], t), Len(docs[d])),
                                Idf(document_count, term_document_count[t]))

\* two documents, and a term of one of them only with the score (1/2) ln 2
C8_Witness ==
    /\ finalize_calls = 1 /\ ~readded /\ ~added_late
    /\ document_count = 2
    /\ \E t \in DOMAIN index : \E d \in DOMAIN index[t] :
          index[t][d] = [num |-> 1, den |-> 2, logs |-> <<[n |-> 2, d |-> 1]>>]

\* C9: add_document on a Finalized index, and search on an index that is
\* not Finalized, are each rejected with an error instead of being executed.
C9_MisuseIsRejected ==
    /\ (iret.op = "add" /\ iret.prePhase = "Finalized") => iret.outcome = "error"
    /\ (iret.op = "search" /\ iret.prePhase # "Finalized") => iret.outcome = "error"

\* C10: a calculate_tfidf_scores call that follows another one leaves the
\* scores, document_count, term_document_count and document_lengths as the
\* first call left them.
C10_FinalizeIdempotent ==
    (iret.op = "finalize" /\ iret.repeat /\ ~added_late) => IndexState = iret.pre

\* C11: search returns at most limit pairs (doc_id, score), each document
\* once with its total score, in non-increasing score order, and no
\* document left out of the list has a score greater than a returned one.
C11_SearchSortedAndBounded ==
    iret.op = "search" =>
        LET r == iret.result
            q == iret.query_terms
            returned == {r[i][1] : i \in 1..Len(r)}
        IN /\ Len(r) <= iret.limit
           /\ Cardinality(returned) = Len(r)
           /\ \A i \in 1..Len(r) : r[i][2] = DocScore(index, q, r[i][1])
           /\ \A i \in 1..(Len(r) - 1) : r[i][2] >= r[i + 1][2]
           /\ \A d \in DocIds \ returned : \A i \in 1..Len(r) :
                  DocScore(index, q, d) <= r[i][2]

\* a search cut short by its limit: a candidate of a lower score is left out
C11_Witness ==
    /\ iret.op = "search"
    /\ Len(iret.result) = iret.limit
    /\ iret.limit >= 1
    /\ \E d \in CandidateDocs(index, iret.query_terms) :
          /\ \A i \in 1..Len(iret.result) : iret.result[i][1] # d
          /\ DocScore(index, iret.query_terms, d) < iret.result[Len(iret.result)][2]

C13_FailedLoadLeavesIndex ==
    (iret.op = "load" /\ iret.error # "none") => IndexState = iret.pre

\* C16: after add_document(d, T1); add_document(d, T2) the index is either
\* as add_document(d, T1) alone left it (the second call rejected) or as it
\* is when add_document(d, T2) is applied in place of the first call (the
\* document replaced): d is counted once and has no posting under a term of
\* T1 that is not in T2.
C16_ReaddRejectsOrReplaces ==
    (iret.op = "add" /\ iret.prev.op = "add" /\ iret.doc_id = iret.prev.doc_id) =>
        \/ IndexState = iret.pre
        \/ IndexState = add_document(iret.prev.pre, iret.doc_id, iret.terms)

\* C17: right after calculate_tfidf_scores, whatever add_document calls came
\* before (empty token lists and repeated doc ids too), term_document_count[t]
\* is the number of documents in index[t] for every term t, and every
\* document in a posting has a recorded length of at least 1.
C17_DocumentFrequency ==
    iret.op = "finalize" =>
        /\ \A t \in Terms \cup DOMAIN index \cup DOMAIN term_document_count :
              Get(term_document_count, t, 0) = Cardinality(DOMAIN Get(index, t, <<>>))
        /\ \A t \in DOMAIN index : \A d \in DOMAIN index[t] :
              d \in DOMAIN document_lengths /\ document_lengths[d] >= 1

\* a document was added again with other terms and keeps the posting of a
\* term it no longer has
C17_Witness ==
    /\ iret.op = "finalize"
    /\ readded
    /\ \E t \in DOMAIN index : \E d \in DOMAIN index[t] :
          Occurrences(docs[d], t) = 0 /\ term_document_count[t] = 1

\* C18: of two documents of equal total score in a search result, the one
\* with the lower doc_id comes first, whatever the order in which the
\* candidate set iterates.
C18_TiesByDocId ==
    iret.op = "search" =>
        \A i, j \in 1..Len(iret.result) :
            (i < j /\ iret.result[i][2] = iret.result[j][2])
                => iret.result[i][1] < iret.result[j][1]

\* C21: for a content and a non-empty list of query terms none of which
\* occurs in the content (letter case ignored), _generate_snippet returns
\* the content's prefix: its first max_length characters, followed by an
\* ellipsis only when the content is longer than max_length.
C21_SnippetFallback ==
    (/\ snip_call.op = "snippet"
     /\ snip_call.query_terms # <<>>
     /\ \A i \in 1..Len(snip_call.query_terms) :
           find(lower(snip_call.content), lower(snip_call.query_terms[i])) = -1)
    => snip_call.ret =
          IF Len(snip_call.content) > snip_call.max_length
          THEN Slice(snip_call.content, 0, snip_call.max_length) \o Ellipsis
          ELSE snip_call.content

====
